---- MODULE Spec2Model ----
\* State-machine model of the VisualClusters extension (leaf resolver, cluster
\* builder, layout orchestrator) of src/wwwroot/extensions.
EXTENDS Integers, Sequences, FiniteSets, TLC

\* ------------------------------------------------------------------ bounds
\* Elements (dbIds) per model, loaded models, and the cap on the run counter.
MaxNodes == 3
MaxModels == 2
MaxStamp == 2
MaxTimers == 1
\* Steps of the interpolation between the original and the clustered pose.
PoseSteps == 2

Nodes == 1..MaxNodes
Models == 1..MaxModels
RunIds == 1..MaxStamp

\* ------------------------------------------------------------------ values
\* A property's displayValue is a string, a number or undefined.
Str(s) == [s |-> s]
Num(n) == [n |-> n]
Undef == [u |-> TRUE]
IsStr(v) == "s" \in DOMAIN v
IsNum(v) == "n" \in DOMAIN v

\* String.prototype.toLowerCase on the strings that occur in the scenes.
ToLowerCase(s) ==
    CASE s = "Mesh" -> "mesh"
      [] s = "MESH" -> "mesh"
      [] s = "Body" -> "body"
      [] s = "BODY" -> "body"
      [] s = "Wall" -> "wall"
      [] s = "Solid" -> "solid"
      [] s = "Level" -> "level"
      [] s = "Group" -> "group"
      [] s = "Doors" -> "doors"
      [] s = "Windows" -> "windows"
      [] s = "Revit Rooms" -> "revit rooms"
      [] s = "Revit Topography" -> "revit topography"
      [] s = "Revit <Sketch>" -> "revit <sketch>"
      [] OTHER -> s

\* JavaScript truthiness of a displayValue.
Truthy(v) == IF IsStr(v) THEN v.s # "" ELSE IF IsNum(v) THEN v.n # 0 ELSE FALSE

\* this.geometryNames
geometryNames == {"mesh", "body"}

\* property.displayValue?.toString().toLowerCase() is one of geometryNames; the
\* decimal rendering of a number and undefined are never a marker.
IsGeometryValue(v) == IF IsStr(v) THEN ToLowerCase(v.s) \in geometryNames ELSE FALSE

\* ------------------------------------------------------------------ sequences
Min(S) == CHOOSE x \in S : \A y \in S : x <= y

RECURSIVE SortedSeq(_)
SortedSeq(S) == IF S = {} THEN <<>> ELSE <<Min(S)>> \o SortedSeq(S \ {Min(S)})

RECURSIVE Flat(_)
Flat(ss) == IF ss = <<>> THEN <<>> ELSE Head(ss) \o Flat(Tail(ss))

Range(s) == {s[k] : k \in 1..Len(s)}

\* [...new Set(a)]: first occurrences, in order.
\* Faulty variant: no de-duplication.
KeepAll(seq) == seq

RECURSIVE Uniq(_)
Uniq(a) ==
    IF a = <<>> THEN <<>>
    ELSE LET init == Uniq(SubSeq(a, 1, Len(a) - 1))
             last == a[Len(a)]
         IN IF last \in Range(init) THEN init ELSE Append(init, last)

NoDup(a) == \A j, k \in 1..Len(a) : j # k => a[j] # a[k]

\* ------------------------------------------------------------------ scenes
\* A fragment of an element: skipped by the loader or not, visible or not.
FragVisible == [notLoaded |-> FALSE, visible |-> TRUE]
FragHidden == [notLoaded |-> FALSE, visible |-> FALSE]
FragSkipped == [notLoaded |-> TRUE, visible |-> TRUE]

\* What a leaf element can look like in the property database.
LeafProfiles ==
    { [name |-> "Wall", extra |-> <<>>, parent |-> "tree", attr |-> "Doors",
       frags |-> <<FragVisible>>],
      [name |-> "Wall", extra |-> <<>>, parent |-> "tree", attr |-> "absent",
       frags |-> <<FragVisible>>],
      [name |-> "", extra |-> <<>>, parent |-> "tree", attr |-> "Windows",
       frags |-> <<FragHidden, FragSkipped>>],
      [name |-> "Mesh", extra |-> <<>>, parent |-> "tree", attr |-> "Doors",
       frags |-> <<FragVisible>>],
      [name |-> "Solid",
       extra |-> <<[displayName |-> "Type", displayValue |-> Str("BODY")]>>,
       parent |-> "tree", attr |-> "Revit Rooms",
       frags |-> <<FragHidden, FragVisible>>],
      [name |-> "mesh", extra |-> <<>>, parent |-> "absent", attr |-> "Doors",
       frags |-> <<FragVisible>>],
      [name |-> "Body", extra |-> <<>>, parent |-> "empty", attr |-> "2",
       frags |-> <<FragVisible>>] }

\* Inner (structural) elements carry no geometry of their own.
InnerProfiles ==
    { [name |-> "Level", extra |-> <<>>, parent |-> "tree", attr |-> "Windows",
       frags |-> <<>>],
      [name |-> "Group", extra |-> <<>>, parent |-> "tree", attr |-> "absent",
       frags |-> <<>>] }

PlainLeaf == CHOOSE p \in LeafProfiles : p.name = "Wall" /\ p.attr = "Doors"
PlainInner == CHOOSE p \in InnerProfiles : p.name = "Level"

\* Hierarchies: element 1 is the root, every other element hangs below a
\* smaller id.
Trees ==
    { t \in [Nodes -> 0..MaxNodes] :
        t[1] = 0 /\ \A n \in Nodes \ {1} : t[n] \in 1..(n - 1) }

HasChildren(t, n) == \E c \in Nodes : t[c] = n

PropertiesOf(t, n, p) ==
    (IF p.attr = "absent" THEN <<>>
     ELSE <<[displayName |-> "Category", displayValue |-> Str(p.attr)]>>)
    \o p.extra
    \o (CASE p.parent = "absent" -> <<>>
          [] p.parent = "empty" -> <<[displayName |-> "parent", displayValue |-> Undef]>>
          [] OTHER -> <<[displayName |-> "parent", displayValue |-> Num(t[n])]>>)

MakeScene(t, prof) ==
    [ parentOf |-> t,
      name |-> [n \in Nodes |-> prof[n].name],
      properties |-> [n \in Nodes |-> PropertiesOf(t, n, prof[n])],
      frags |-> [n \in Nodes |-> prof[n].frags],
      is3d |-> TRUE,
      unreadable |-> {} ]

RichScenes ==
    UNION { { MakeScene(t, prof) :
                prof \in { q \in [Nodes -> LeafProfiles \cup InnerProfiles] :
                             \A n \in Nodes :
                                IF HasChildren(t, n) THEN q[n] \in InnerProfiles
                                ELSE q[n] \in LeafProfiles } } : t \in Trees }

PlainScenes ==
    { MakeScene(t, [n \in Nodes |-> IF HasChildren(t, n) THEN PlainInner ELSE PlainLeaf]) :
        t \in Trees }

\* The models of the viewer session: plain elements, a different hierarchy per
\* model (a chain for the first, flatter ones for the next).
ViewerScene(m) ==
    LET t == [n \in Nodes |-> IF n = 1 THEN 0 ELSE IF n - m < 1 THEN 1 ELSE n - m]
    IN MakeScene(t, [n \in Nodes |-> IF HasChildren(t, n) THEN PlainInner ELSE PlainLeaf])

\* ------------------------------------------------------------------ host queries
\* InstanceTree.enumNodeChildren(dbId, callback, true): the element itself, then
\* its descendants depth-first (children in ascending id order).
RECURSIVE EnumNodeChildren(_, _)
EnumNodeChildren(sc, n) ==
    LET kids == SortedSeq({c \in Nodes : sc.parentOf[c] = n})
    IN <<n>> \o Flat([k \in 1..Len(kids) |-> EnumNodeChildren(sc, kids[k])])

getRootId == 1

getChildCount(sc, n) == Cardinality({c \in Nodes : sc.parentOf[c] = n})

\* model.getBulkProperties(ids, {}, ...): one record per id, all properties.
getBulkProperties(sc, ids) ==
    [k \in 1..Len(ids) |->
        [dbId |-> ids[k], name |-> sc.name[ids[k]], properties |-> sc.properties[ids[k]]]]

\* model.getBulkProperties2(ids, {propFilter: [attribName]}, ...): the
\* properties of each record are cut down to the requested attribute. For an
\* element without the attribute the host either leaves the record out (omit)
\* or returns it with no properties.
getBulkProperties2(sc, ids, attribName, omit) ==
    LET rec(id) ==
            [dbId |-> id,
             properties |-> SelectSeq(sc.properties[id],
                                      LAMBDA q : q.displayName = attribName)]
        all == [k \in 1..Len(ids) |-> rec(ids[k])]
    IN IF omit THEN SelectSeq(all, LAMBDA it : it.properties # <<>>) ELSE all

\* ------------------------------------------------------------------ BaseExtension
\* findLeafNodes: the elements with no children, in traversal order.
findLeafNodes(sc) ==
    SelectSeq(EnumNodeChildren(sc, getRootId), LAMBDA n : getChildCount(sc, n) = 0)

\* const chunkSize = 1000 in the code; the model cuts after every chunkSize-th
\* leaf of its small scenes, so that a resolution issues several queries at
\* once.
chunkSize == 1

\* allDbIds.slice(i, i + chunkSize) for i = 0, chunkSize, ...
RECURSIVE Chunks(_, _)
Chunks(ids, size) ==
    IF ids = <<>> THEN <<>>
    ELSE IF Len(ids) <= size THEN <<ids>>
    ELSE <<SubSeq(ids, 1, size)>> \o Chunks(SubSeq(ids, size + 1, Len(ids)), size)

Threw == [threw |-> TRUE]
Pushed(id) == [threw |-> FALSE, id |-> id]

\* Faulty variant: the marker test compares without lower-casing.
PromoteLeafCaseSensitive(prop) ==
    LET hasGeometryProperty ==
            \E k \in 1..Len(prop.properties) :
                /\ IsStr(prop.properties[k].displayValue)
                /\ prop.properties[k].displayValue.s \in geometryNames
        nameHit == prop.name \in geometryNames
        found == {k \in 1..Len(prop.properties) :
                    prop.properties[k].displayName = "parent"}
    IN IF hasGeometryProperty \/ nameHit
       THEN IF found = {} THEN Threw
            ELSE LET displayProperty == prop.properties[Min(found)]
                 IN IF Truthy(displayProperty.displayValue)
                    THEN Pushed(displayProperty.displayValue.n)
                    ELSE Pushed(prop.dbId)
       ELSE Pushed(prop.dbId)

\* The body of the forEach over the property records: what one record pushes
\* to dbIds, or the TypeError of reading displayValue of an undefined find()
\* result.
PromoteLeaf(prop) ==
    LET hasGeometryProperty ==
            \E k \in 1..Len(prop.properties) :
                IsGeometryValue(prop.properties[k].displayValue)
        nameHit == prop.name # "" /\ ToLowerCase(prop.name) \in geometryNames
        found == {k \in 1..Len(prop.properties) :
                    prop.properties[k].displayName = "parent"}
    IN IF hasGeometryProperty \/ nameHit
       THEN IF found = {} THEN Threw
            ELSE LET displayProperty == prop.properties[Min(found)]
                 IN IF Truthy(displayProperty.displayValue)
                    THEN Pushed(displayProperty.displayValue.n)
                    ELSE Pushed(prop.dbId)
       ELSE Pushed(prop.dbId)

\* The forEach and the de-duplication: the resolved ids of the property
\* records, or a rejection when one record throws.
ResolveProps(props) ==
    LET each == [k \in 1..Len(props) |-> PromoteLeaf(props[k])]
    IN IF \E k \in 1..Len(props) : each[k].threw
       THEN [threw |-> TRUE, dbIds |-> <<>>]
       ELSE [threw |-> FALSE, dbIds |-> Uniq([k \in 1..Len(props) |-> each[k].id])]

\* Faulty variant: the chunks are collected newest first (unshift for push).
QueriesOfNewestFirst(allDbIds, useParallel) ==
    LET chunks == Chunks(allDbIds, chunkSize)
    IN IF useParallel THEN [k \in 1..Len(chunks) |-> chunks[Len(chunks) + 1 - k]]
       ELSE <<allDbIds>>

\* The id lists findActualLeafNodes hands to getBulkProperties: the chunks in
\* the parallel branch, the whole leaf list in the other.
QueriesOf(allDbIds, useParallel) ==
    IF useParallel THEN Chunks(allDbIds, chunkSize) ELSE <<allDbIds>>

\* The property records the forEach runs over: results.flat() of the chunks'
\* answers in the order of the chunks, or the answer of the single query.
PropsOf(sc, allDbIds, useParallel) ==
    LET queries == QueriesOf(allDbIds, useParallel)
    IN IF useParallel
       THEN Flat([k \in 1..Len(queries) |-> getBulkProperties(sc, queries[k])])
       ELSE getBulkProperties(sc, queries[1])

\* ------------------------------------------------------------------ Cluster.js
createShapeId(modelId, dbId) == [modelId |-> modelId, dbId |-> dbId]

\* Faulty variant: a fragment the loader skipped counts as visible.
hasVisibleFragmentsIgnoringSkipped(sc, dbId) ==
    \E k \in 1..Len(sc.frags[dbId]) : sc.frags[dbId][k].visible

\* hasVisibleFragments: some fragment of the element itself is loaded and not
\* hidden.
hasVisibleFragments(sc, dbId) ==
    \E k \in 1..Len(sc.frags[dbId]) :
        LET skipped == sc.frags[dbId][k].notLoaded
            hidden == ~sc.frags[dbId][k].visible
        IN ~skipped /\ ~hidden

\* Faulty variant: every item opens a cluster of its own instead of looking
\* its category up.
MergeItemAlwaysNew(clustersByName, item, sc, modelId, searchAncestors) ==
    LET category == item.properties[1].displayValue.s
        cbn == Append(clustersByName, [name |-> category, shapeIds |-> <<>>])
        kids == SelectSeq(EnumNodeChildren(sc, item.dbId),
                          LAMBDA child : hasVisibleFragments(sc, child))
        added == IF searchAncestors
                 THEN [k \in 1..Len(kids) |-> createShapeId(modelId, kids[k])]
                 ELSE <<createShapeId(modelId, item.dbId)>>
    IN [cbn EXCEPT ![Len(cbn)].shapeIds = @ \o added]

\* One iteration of the loop of onDone: get or create the cluster of the
\* item's category, then append the item (or its visible descendants).
\* clustersByName is kept as the list of its entries in creation order.
MergeItem(clustersByName, item, sc, modelId, searchAncestors) ==
    LET category == item.properties[1].displayValue.s
        known == \E j \in 1..Len(clustersByName) : clustersByName[j].name = category
        cbn == IF known THEN clustersByName
               ELSE Append(clustersByName, [name |-> category, shapeIds |-> <<>>])
        at == CHOOSE j \in 1..Len(cbn) : cbn[j].name = category
        kids == SelectSeq(EnumNodeChildren(sc, item.dbId),
                          LAMBDA child : hasVisibleFragments(sc, child))
        added == IF searchAncestors
                 THEN [k \in 1..Len(kids) |-> createShapeId(modelId, kids[k])]
                 ELSE <<createShapeId(modelId, item.dbId)>>
    IN [cbn EXCEPT ![at].shapeIds = @ \o added]

\* onDone(result): the items are merged in order; an item without properties
\* makes item.properties[0].displayValue throw, which leaves the clusters as
\* merged so far and the promise of this model unsettled.
RECURSIVE onDone(_, _, _, _, _)
onDone(clustersByName, result, sc, modelId, searchAncestors) ==
    IF result = <<>> THEN [threw |-> FALSE, clustersByName |-> clustersByName]
    ELSE IF Head(result).properties = <<>>
         THEN [threw |-> TRUE, clustersByName |-> clustersByName]
         ELSE onDone(MergeItem(clustersByName, Head(result), sc, modelId, searchAncestors),
                     Tail(result), sc, modelId, searchAncestors)

\* Keys of a JavaScript object that are array indices, with their value.
IntegerKey(name) ==
    CASE name = "0" -> 0
      [] name = "1" -> 1
      [] name = "2" -> 2
      [] name = "3" -> 3
      [] OTHER -> -1

\* Object.values(clustersByName): integer-like keys in ascending numeric
\* order, then the other keys in creation order.
ObjectValues(clustersByName) ==
    LET ints == {IntegerKey(clustersByName[j].name) : j \in 1..Len(clustersByName)} \ {-1}
        order == SortedSeq(ints)
        byKey(n) == CHOOSE j \in 1..Len(clustersByName) :
                       IntegerKey(clustersByName[j].name) = n
    IN [k \in 1..Len(order) |-> clustersByName[byKey(order[k])]]
       \o SelectSeq(clustersByName, LAMBDA c : IntegerKey(c.name) = -1)

\* ------------------------------------------------------------------ state
VARIABLES
    scene,             \* the loaded models: hierarchy, properties, fragments
    visibleModels,     \* viewer.getVisibleModels()
    options,           \* the options the extension was constructed with
    customSceneLayout, \* whether a client has set this.customSceneLayout
    cachedDbIds,       \* BaseExtension.cachedDbIds
    cachedFor,         \* the model whose leaves cachedDbIds was computed from
    runs,              \* the pipeline runs (buildClustersFromAttribute), by id
    layoutActive,
    layoutTimeStamp,
    chosenAttrib,
    sceneLayout,       \* the run whose layout this.sceneLayout holds, 0: unset
    sceneAnimState,    \* the run whose state this.sceneAnimState holds, 0: unset
    registered,        \* the run whose state is registered as 'ByCategory', 0: none
    animTarget,        \* the state the animation controller moves to, 0: original
    gizmoLayout,       \* the layout the gizmo controller shows, 0: none
    transitioning,     \* the animation controller is interpolating
    pose,              \* the interpolated pose: 0 original .. PoseSteps clustered
    animFrom,          \* the pose the transition under way started from
    timers,            \* pending 500 ms continuations of onDestinationChange
    propDb,            \* per model: its property database is "loading", "ready", "missing"
    listeners,         \* the event listeners registered by the extension
    clusterButton,     \* this.clusterButton: "undefined", "button" or "null"
    buttonState,       \* the state last set on the toolbar button
    buttonVisible,     \* the visibility last set on the toolbar button
    dropdown,          \* this.dropdown: display style, options, still in the document
    enum,              \* the enumeration of property names started by prepareDropdown
    loaded,            \* the extension manager's view: "no", "yes", "unloaded"
    out                \* the calls and events the last step issued, in order

sceneVars == <<scene, visibleModels, options, customSceneLayout>>
cacheVars == <<cachedDbIds, cachedFor>>
animVars == <<sceneLayout, sceneAnimState, registered, animTarget, gizmoLayout,
              transitioning, pose, animFrom>>
vars == <<scene, visibleModels, options, customSceneLayout, cachedDbIds, cachedFor,
          runs, layoutActive, layoutTimeStamp, chosenAttrib, sceneLayout,
          sceneAnimState, registered, animTarget, gizmoLayout, transitioning,
          pose, animFrom, timers, propDb, listeners, clusterButton, buttonState, buttonVisible,
          dropdown, enum, loaded, out>>

NullCache == [isNull |-> TRUE, ids |-> <<>>]
Cached(ids) == [isNull |-> FALSE, ids |-> ids]

\* The enumeration of prepareDropdown when none is under way.
IdleEnum ==
    [ pc |-> "idle", models |-> <<>>, i |-> 0, allDbIds |-> <<>>,
      pendingChunks |-> {}, names |-> {} ]

IdleRun ==
    [ pc |-> "idle", caller |-> "none", models |-> <<>>, attribName |-> "",
      searchAncestors |-> FALSE, i |-> 0, allDbIds |-> <<>>, pendingChunks |-> {},
      dbIds |-> <<>>, leavesOf |-> <<>>, attrPending |-> {}, attrFailed |-> {},
      attrThrew |-> {}, error |-> "", outdated |-> FALSE,
      clustersByName |-> <<>>, clusters |-> <<>>, laidOut |-> <<>>,
      useCache |-> TRUE, useParallel |-> TRUE ]

\* ------------------------------------------------------------------ pipeline
\* The run from the top of a loop iteration to its next suspension: a cached
\* leaf set is used at once (useCache defaults to true), the attribute query
\* of the model is issued and the loop goes on; without a cached leaf set the
\* run waits for the object tree. After the last model it waits for the join.
RECURSIVE Advance(_, _, _)
Advance(run, cache, cfor) ==
    IF run.i > Len(run.models) THEN [run EXCEPT !.pc = "join"]
    ELSE IF ~cache.isNull
         THEN Advance([run EXCEPT !.dbIds = Append(@, cache.ids),
                                  !.leavesOf = Append(@, cfor),
                                  !.attrPending = @ \cup {run.i},
                                  !.i = @ + 1], cache, cfor)
         ELSE [run EXCEPT !.pc = "leafTree"]

\* Faulty variant: the clusters are taken once the loop is over, without
\* waiting for the attribute queries.
CompleteWithoutJoin(run) ==
    IF run.pc = "join" /\ run.attrFailed = {} /\ run.attrThrew = {}
    THEN [run EXCEPT !.pc = "resolved", !.clusters = ObjectValues(run.clustersByName)]
    ELSE run

\* await Promise.all(promises), then Object.values.
Complete(run) ==
    IF run.pc = "join" /\ run.attrPending = {} /\ run.attrFailed = {} /\ run.attrThrew = {}
    THEN [run EXCEPT !.pc = "resolved", !.clusters = ObjectValues(run.clustersByName)]
    ELSE run

\* The build rejects with the error of the leaf resolution; the answers of the
\* attribute queries still under way no longer matter.
Reject(run, error) ==
    [run EXCEPT !.pc = "rejected", !.error = error, !.pendingChunks = {},
                !.attrPending = {}]

\* The resolver has the property records of every chunk: promote, de-duplicate,
\* fill the cache and continue the loop, or reject on a TypeError.
FinishLeaves(run, cache, cfor) ==
    LET m == run.models[run.i]
        chunks == Chunks(run.allDbIds, chunkSize)
        results == [k \in 1..Len(chunks) |-> getBulkProperties(scene[m], chunks[k])]
        res == ResolveProps(Flat(results))
        next == [run EXCEPT !.dbIds = Append(@, res.dbIds),
                            !.leavesOf = Append(@, m),
                            !.attrPending = @ \cup {run.i},
                            !.pendingChunks = {},
                            !.i = @ + 1]
    IN IF res.threw
       THEN [run |-> Reject(run, "TypeError"), cache |-> cache, cfor |-> cfor]
       ELSE [run |-> Complete(Advance(next, Cached(res.dbIds), m)),
             cache |-> Cached(res.dbIds), cfor |-> m]

\* ------------------------------------------------------------------ VisualClusters.js
\* The extension's state as one value, so that a handler is the composition of
\* the methods it calls. out starts empty in every step.
Cur ==
    [ visibleModels |-> visibleModels, cachedDbIds |-> cachedDbIds,
      cachedFor |-> cachedFor, runs |-> runs, layoutActive |-> layoutActive,
      layoutTimeStamp |-> layoutTimeStamp, chosenAttrib |-> chosenAttrib,
      sceneLayout |-> sceneLayout, sceneAnimState |-> sceneAnimState,
      registered |-> registered, animTarget |-> animTarget,
      gizmoLayout |-> gizmoLayout, transitioning |-> transitioning,
      pose |-> pose, animFrom |-> animFrom,
      timers |-> timers, propDb |-> propDb, listeners |-> listeners,
      clusterButton |-> clusterButton, buttonState |-> buttonState,
      buttonVisible |-> buttonVisible, dropdown |-> dropdown, enum |-> enum,
      loaded |-> loaded, out |-> <<>> ]

Commit(S) ==
    /\ visibleModels' = S.visibleModels
    /\ cachedDbIds' = S.cachedDbIds
    /\ cachedFor' = S.cachedFor
    /\ runs' = S.runs
    /\ layoutActive' = S.layoutActive
    /\ layoutTimeStamp' = S.layoutTimeStamp
    /\ chosenAttrib' = S.chosenAttrib
    /\ sceneLayout' = S.sceneLayout
    /\ sceneAnimState' = S.sceneAnimState
    /\ registered' = S.registered
    /\ animTarget' = S.animTarget
    /\ gizmoLayout' = S.gizmoLayout
    /\ transitioning' = S.transitioning
    /\ pose' = S.pose
    /\ animFrom' = S.animFrom
    /\ timers' = S.timers
    /\ propDb' = S.propDb
    /\ listeners' = S.listeners
    /\ clusterButton' = S.clusterButton
    /\ buttonState' = S.buttonState
    /\ buttonVisible' = S.buttonVisible
    /\ dropdown' = S.dropdown
    /\ enum' = S.enum
    /\ loaded' = S.loaded
    /\ out' = S.out
    /\ UNCHANGED <<scene, options, customSceneLayout>>

\* The variables hold the extension state S.
InState(S) ==
    /\ visibleModels = S.visibleModels
    /\ cachedDbIds = S.cachedDbIds
    /\ cachedFor = S.cachedFor
    /\ runs = S.runs
    /\ layoutActive = S.layoutActive
    /\ layoutTimeStamp = S.layoutTimeStamp
    /\ chosenAttrib = S.chosenAttrib
    /\ sceneLayout = S.sceneLayout
    /\ sceneAnimState = S.sceneAnimState
    /\ registered = S.registered
    /\ animTarget = S.animTarget
    /\ gizmoLayout = S.gizmoLayout
    /\ transitioning = S.transitioning
    /\ pose = S.pose
    /\ animFrom = S.animFrom
    /\ timers = S.timers
    /\ propDb = S.propDb
    /\ listeners = S.listeners
    /\ clusterButton = S.clusterButton
    /\ buttonState = S.buttonState
    /\ buttonVisible = S.buttonVisible
    /\ dropdown = S.dropdown
    /\ enum = S.enum
    /\ loaded = S.loaded
    /\ out = S.out

\* model.is3d()
is3d(m) == scene[m].is3d

\* model.getPropertyDb() && !model.getPropertyDb().isLoadDone()
propDbLoading(S, m) == S.propDb[m] = "loading"

\* !propDbLoading(model) && !model.getInstanceTree()
propDbMissing(S, m) == ~propDbLoading(S, m) /\ S.propDb[m] # "ready"

\* Faulty variant: the button state is never DISABLED.
updateButtonNeverDisabled(S) ==
    IF S.clusterButton # "button" THEN S
    ELSE LET showButton == \E m \in Range(S.visibleModels) : is3d(m)
         IN IF ~showButton THEN [S EXCEPT !.buttonVisible = FALSE]
            ELSE [S EXCEPT !.buttonVisible = TRUE,
                           !.buttonState = IF S.layoutActive THEN "ACTIVE"
                                           ELSE "INACTIVE"]

\* updateButton(): nothing without a button; the button is shown when a 3D
\* model is visible and only then is its state set: DISABLED while a property database is loading or missing,
\* otherwise ACTIVE or INACTIVE by layoutActive.
updateButton(S) ==
    IF S.clusterButton # "button" THEN S
    ELSE LET showButton == \E m \in Range(S.visibleModels) : is3d(m)
             waitForDb == \E m \in Range(S.visibleModels) : propDbLoading(S, m)
             noPropDb == \E m \in Range(S.visibleModels) : propDbMissing(S, m)
             disable == waitForDb \/ noPropDb
         IN IF ~showButton THEN [S EXCEPT !.buttonVisible = FALSE]
            ELSE [S EXCEPT !.buttonVisible = TRUE,
                           !.buttonState = IF disable THEN "DISABLED"
                                           ELSE IF S.layoutActive THEN "ACTIVE"
                                           ELSE "INACTIVE"]

\* A default parameter value replaces an undefined argument only.
DefaultParam(arg, default) == IF arg = "undefined" THEN default ELSE arg

\* createDefaultLayout: the models it works on, the 3D models with an instance
\* tree.
SupportedModels(S) ==
    SelectSeq(S.visibleModels, LAMBDA m : is3d(m) /\ S.propDb[m] = "ready")

\* createDefaultLayout: the clusters handed to createClusterSetLayout.
ExcludedNames == {"Revit Topography", "Revit Rooms", "Revit <Sketch>"}

\* Faulty variant: the filter compares lower-cased names.
LayoutClustersIgnoringCase(clusters) ==
    SelectSeq(clusters, LAMBDA c : ToLowerCase(c.name) \notin
                                      {ToLowerCase(x) : x \in ExcludedNames})

LayoutClusters(clusters) == SelectSeq(clusters, LAMBDA c : c.name \notin ExcludedNames)

\* What stays reachable of a run of applyLayout that has returned or thrown:
\* nothing but its outcome, and for an applied run the clusters that were
\* built and those createDefaultLayout handed to createClusterSetLayout.
Returned(run, pc) ==
    IF pc = "applied"
    THEN [IdleRun EXCEPT !.pc = pc, !.caller = run.caller, !.models = run.models,
                         !.attribName = run.attribName,
                         !.searchAncestors = run.searchAncestors,
                         !.clusters = run.clusters,
                         !.laidOut = LayoutClusters(run.clusters)]
    ELSE [IdleRun EXCEPT !.pc = pc, !.caller = run.caller, !.error = run.error,
                         !.outdated = run.outdated]

\* Faulty variants of the test: one forgets the run counter, the other the
\* activation flag.
IsOutdatedIgnoringCounter(S, r) == ~S.layoutActive

IsOutdatedIgnoringActive(S, r) == r # S.layoutTimeStamp

\* The test of applyLayout after its await: the result of run r is outdated.
IsOutdated(S, r) == ~S.layoutActive \/ r # S.layoutTimeStamp

\* The pose a target state stands for: the original pose for null (0), the
\* clustered pose for a registered layout.
PoseOf(target) == IF target = 0 THEN 0 ELSE PoseSteps

\* AnimController.animateTo(target): the target replaces the one of a
\* transition under way, and the transition starts from the current
\* interpolated pose.
animateTo(S, target) ==
    [S EXCEPT !.animTarget = target,
              !.animFrom = S.pose,
              !.transitioning = TRUE]

\* Faulty variant: the animation is started before the state is registered
\* and the event fired.
ApplyResultAnimatingFirst(S, r) ==
    IF IsOutdated(S, r)
    THEN [S EXCEPT !.runs[r] =
              Returned([@ EXCEPT !.outdated = (r # S.layoutTimeStamp)], "discarded")]
    ELSE [animateTo(S, r) EXCEPT
                   !.runs[r] = Returned(@, "applied"),
                   !.sceneLayout = r,
                   !.sceneAnimState = r,
                   !.registered = r,
                   !.gizmoLayout = r,
                   !.out = @ \o <<"animateTo(ByCategory)", "registerState(ByCategory)",
                                  "TRANSITION_STARTED", "onLayoutChanged(sceneLayout)">>]

\* The rest of applyLayout once the layout of run r is there: return when it
\* is outdated; otherwise keep it, register the clustered state, fire
\* TRANSITION_STARTED, animate and tell the gizmo controller.
ApplyResult(S, r) ==
    IF IsOutdated(S, r)
    THEN [S EXCEPT !.runs[r] =
              Returned([@ EXCEPT !.outdated = (r # S.layoutTimeStamp)], "discarded")]
    ELSE [animateTo(S, r) EXCEPT
                   !.runs[r] = Returned(@, "applied"),
                   !.sceneLayout = r,
                   !.sceneAnimState = r,
                   !.registered = r,
                   !.gizmoLayout = r,
                   !.out = @ \o <<"registerState(ByCategory)", "TRANSITION_STARTED",
                                  "animateTo(ByCategory)", "onLayoutChanged(sceneLayout)">>]

\* What follows the settling of run r's build in the same turn of the event
\* loop: applyLayout continues when the build it awaits has resolved.
Settle(S, r) ==
    IF S.runs[r].caller # "applyLayout" THEN S
    ELSE IF S.runs[r].pc = "resolved" THEN ApplyResult(S, r)
    ELSE IF S.runs[r].pc = "rejected" THEN [S EXCEPT !.runs[r] = Returned(@, "rejected")]
    ELSE S

\* applyLayout up to its first suspension (and through it when nothing is
\* awaited): the counter is incremented and captured, then either the custom
\* layout is taken or the default layout is built from this.chosenAttrib and
\* this.options.searchAncestors.
applyLayout(S) ==
    LET stamp == S.layoutTimeStamp + 1
        S1 == [S EXCEPT !.layoutTimeStamp = stamp]
        run0 == [IdleRun EXCEPT !.caller = "applyLayout",
                                !.models = SupportedModels(S),
                                !.attribName = DefaultParam(S.chosenAttrib, "Category"),
                                !.searchAncestors =
                                    (DefaultParam(options.searchAncestors, "true") = "true"),
                                !.i = 1]
    IN IF customSceneLayout
       THEN ApplyResult([S1 EXCEPT !.runs[stamp] =
                            [IdleRun EXCEPT !.caller = "applyLayout", !.pc = "custom"]],
                        stamp)
       ELSE Settle([S1 EXCEPT !.runs[stamp] =
                        Complete(Advance(run0, S.cachedDbIds, S.cachedFor))], stamp)

\* Faulty variant: setLayoutActive without the test for an unchanged value.
setLayoutActiveUnguarded(S, active) ==
    LET S1 == updateButton([S EXCEPT !.layoutActive = active])
    IN IF ~active
       THEN [animateTo(S1, 0) EXCEPT
                       !.gizmoLayout = 0,
                       !.out = @ \o <<"TRANSITION_STARTED", "animateTo(null)",
                                      "onLayoutChanged(null)">>]
       ELSE IF S.layoutTimeStamp < MaxStamp THEN applyLayout(S1) ELSE S1

\* Faulty variant: a deactivation that puts every element at the pose of the
\* target under way before it animates back.
setLayoutActiveSnapping(S, active) ==
    IF S.layoutActive = active THEN S
    ELSE LET S1 == updateButton([S EXCEPT !.layoutActive = active])
         IN IF ~active
            THEN [animateTo([S1 EXCEPT !.pose = PoseOf(S.animTarget)], 0) EXCEPT
                            !.gizmoLayout = 0,
                            !.out = @ \o <<"TRANSITION_STARTED", "animateTo(null)",
                                           "onLayoutChanged(null)">>]
            ELSE applyLayout(S1)

\* setLayoutActive(active): nothing when unchanged; deactivation animates back
\* to the original state; activation starts a layout run.
setLayoutActive(S, active) ==
    IF S.layoutActive = active THEN S
    ELSE LET S1 == updateButton([S EXCEPT !.layoutActive = active])
         IN IF ~active
            THEN [animateTo(S1, 0) EXCEPT
                            !.gizmoLayout = 0,
                            !.out = @ \o <<"TRANSITION_STARTED", "animateTo(null)",
                                           "onLayoutChanged(null)">>]
            ELSE applyLayout(S1)

\* The registered clustered state has clusters: the test of onTransitionEnded
\* (ClusteredStateName in states, and its animStates are not empty).
HasClusteredState(S) ==
    /\ S.registered # 0
    /\ \/ S.runs[S.registered].pc = "custom"
       \/ LayoutClusters(S.runs[S.registered].clusters) # <<>>

\* onTransitionEnded, the listener of ANIM_ENDED: TRANSITION_ENDED is fired
\* with the registered clustered state, or with null when there is none.
onTransitionEnded(S) ==
    [S EXCEPT !.out = @ \o <<IF HasClusteredState(S) THEN "TRANSITION_ENDED(ByCategory)"
                                                     ELSE "TRANSITION_ENDED(null)">>]

\* AnimController.reset(): a transition in flight is cancelled, which ends it,
\* and every element is back at its original transform. The registered
\* states stay.
animControllerReset(S) ==
    LET S1 == [S EXCEPT !.animTarget = 0,
                        !.transitioning = FALSE,
                        !.pose = 0,
                        !.animFrom = 0,
                        !.out = @ \o <<"animController.reset">>]
    IN IF S.transitioning THEN onTransitionEnded(S1) ELSE S1

\* Faulty variant: a reset that also restarts the run counter.
resetRestartingCounter(S) ==
    updateButton([animControllerReset(S) EXCEPT !.gizmoLayout = 0,
                                                !.layoutActive = FALSE,
                                                !.layoutTimeStamp = 0,
                                                !.out = @ \o <<"gizmoController.reset">>])

\* reset(): both controllers are reset, the layout is inactive and the button
\* is updated.
reset(S) ==
    updateButton([animControllerReset(S) EXCEPT !.gizmoLayout = 0,
                                                !.layoutActive = FALSE,
                                                !.out = @ \o <<"gizmoController.reset">>])

\* The listeners load() registers with the viewer.
ViewerListeners == {"MODEL_ADDED", "MODEL_REMOVED", "OBJECT_TREE_CREATED", "ANIM_ENDED"}

\* load(): the four viewer listeners are added unless skipDefaultListeners.
load(S) ==
    IF options.skipDefaultListeners
    THEN [S EXCEPT !.loaded = "yes", !.out = @ \o <<"return true">>]
    ELSE [S EXCEPT !.listeners = @ \cup ViewerListeners,
                   !.loaded = "yes",
                   !.out = @ \o <<"return true">>]

\* onToolbarCreated(): unless skipDefaultButton, the button is created (a new
\* button is visible and INACTIVE) and the click and change listeners are added.
onToolbarCreated(S) ==
    IF options.skipDefaultButton THEN S
    ELSE [S EXCEPT !.clusterButton = "button",
                   !.buttonState = "INACTIVE",
                   !.buttonVisible = TRUE,
                   !.listeners = @ \cup {"click", "change"}]

\* _destroyUI(): the button, when there is one, is taken off the toolbar and
\* forgotten; the layout is deactivated.
destroyUI(S) ==
    setLayoutActive(IF S.clusterButton = "button"
                    THEN [S EXCEPT !.clusterButton = "null"] ELSE S, FALSE)

\* The listeners a removeEventListener of unload() takes off: the three that
\* are removed with the function they were added with. OBJECT_TREE_CREATED is
\* removed with this.onDbLoaded but was added with this.dbLoadedCb, click and
\* change are removed with functions created in the call.
UnloadRemoves == {"MODEL_ADDED", "MODEL_REMOVED", "ANIM_ENDED"}

\* unload(): unless skipDefaultListeners, listeners are removed, which throws
\* a TypeError at this.clusterButton.removeEventListener when clusterButton is
\* undefined or null, and the dropdown is taken out of the document; then the
\* animation controller is reset and the UI destroyed. The extension manager
\* takes the extension for loaded when load() has returned true and for
\* unloaded when unload() has.
unload(S) ==
    LET S1 == IF options.skipDefaultListeners THEN S
              ELSE [S EXCEPT !.listeners = @ \ UnloadRemoves]
        S2 == IF options.skipDefaultListeners THEN S1
              ELSE [S1 EXCEPT !.dropdown.attached = FALSE]
    IN IF ~options.skipDefaultListeners /\ S.clusterButton # "button"
       THEN [S1 EXCEPT !.out = @ \o <<"TypeError">>]
       ELSE [destroyUI(animControllerReset(S2)) EXCEPT !.loaded = "unloaded",
                                                       !.out = @ \o <<"return true">>]

\* enumAllProperties from the top of a loop iteration to its next suspension:
\* a cached leaf set is taken at once and the properties of those ids are
\* asked of the model; otherwise the enumeration waits for the object tree.
\* After the last model prepareDropdown appends one option per name.
EnumAdvance(S) ==
    LET en == S.enum
    IN IF en.i > Len(en.models)
       THEN [S EXCEPT !.enum = IdleEnum, !.dropdown.options = @ \cup en.names]
       ELSE IF ~S.cachedDbIds.isNull
            THEN [S EXCEPT !.enum.pc = "props", !.enum.allDbIds = S.cachedDbIds.ids]
            ELSE [S EXCEPT !.enum.pc = "leafTree"]

\* The catch of the loop body: the error is logged, the loop goes on.
EnumCatch(S) ==
    EnumAdvance([S EXCEPT !.enum.i = @ + 1, !.enum.pendingChunks = {},
                          !.enum.allDbIds = <<>>])

\* The leaf resolution of the enumeration has every chunk: promote,
\* de-duplicate, fill the cache and ask for the properties, or throw.
EnumFinishLeaves(S) ==
    LET m == S.enum.models[S.enum.i]
        res == ResolveProps(getBulkProperties(scene[m], S.enum.allDbIds))
    IN IF res.threw THEN EnumCatch(S)
       ELSE [S EXCEPT !.cachedDbIds = Cached(res.dbIds),
                      !.cachedFor = m,
                      !.enum.pc = "props",
                      !.enum.allDbIds = res.dbIds,
                      !.enum.pendingChunks = {}]

\* prepareDropdown(): the property names of the visible models are enumerated.
prepareDropdown(S) ==
    EnumAdvance([S EXCEPT !.enum = [IdleEnum EXCEPT !.models = S.visibleModels,
                                                    !.i = 1]])

\* onStartAnimateClick(): with the dropdown hidden it is shown (and filled
\* when it has no options), otherwise hidden; either way the layout is toggled.
onStartAnimateClick(S) ==
    IF S.dropdown.display = "none"
    THEN LET S1 == updateButton(S)
             S2 == IF S1.dropdown.options = {} THEN prepareDropdown(S1) ELSE S1
             S3 == [S2 EXCEPT !.dropdown.display = "block"]
         IN setLayoutActive(S3, ~S3.layoutActive)
    ELSE LET S1 == [updateButton(S) EXCEPT !.dropdown.display = "none"]
         IN setLayoutActive(S1, ~S1.layoutActive)

\* Whether a call of setLayoutActive(active) starts a layout run.
Starts(S, active) == active /\ ~S.layoutActive

CanStart(S) == S.layoutTimeStamp < MaxStamp

\* ------------------------------------------------------------------ handlers
\* The public setLayoutActive(active).
SetLayoutActive(active) ==
    /\ Starts(Cur, active) => CanStart(Cur)
    /\ Commit(setLayoutActive(Cur, active))

\* The public applyLayout().
ApplyLayout ==
    /\ CanStart(Cur)
    /\ Commit(applyLayout(Cur))

Reset ==
    /\ Commit(reset(Cur))

Unload ==
    /\ Commit(unload(Cur))

\* load(), called once by the extension manager.
Load ==
    /\ loaded = "no"
    /\ Commit(load(Cur))

\* The viewer has its toolbar.
ToolbarCreated ==
    /\ clusterButton = "undefined"
    /\ Commit(onToolbarCreated(Cur))

\* A click on the toolbar button, which is there to click while it is on the
\* toolbar and shown. One enumeration of property names runs at a time.
Click ==
    /\ "click" \in listeners /\ clusterButton = "button" /\ buttonVisible
    /\ Starts(Cur, ~layoutActive) => CanStart(Cur)
    /\ (dropdown.display = "none" /\ dropdown.options = {}) => enum.pc = "idle"
    /\ Commit(onStartAnimateClick(Cur))

\* OBJECT_TREE_CREATED_EVENT: the property database of a model has loaded.
DbLoaded(m) ==
    /\ propDb[m] = "loading"
    /\ LET S1 == [Cur EXCEPT !.propDb[m] = "ready"]
       IN Commit(IF "OBJECT_TREE_CREATED" \in listeners THEN updateButton(S1) ELSE S1)

\* A frame of the render loop that does not complete the transition: the pose
\* moves a step towards the target.
AnimTick ==
    /\ transitioning
    /\ LET next == IF pose < PoseOf(animTarget) THEN pose + 1 ELSE pose - 1
       IN /\ pose # PoseOf(animTarget) /\ next # PoseOf(animTarget)
          /\ Commit([Cur EXCEPT !.pose = next])

\* ANIM_ENDED: the transition has reached its target; the listener, when
\* registered, fires TRANSITION_ENDED.
AnimEnded ==
    /\ transitioning
    /\ LET S1 == [Cur EXCEPT !.transitioning = FALSE,
                             !.pose = PoseOf(animTarget),
                             !.animFrom = PoseOf(animTarget)]
       IN Commit(IF "ANIM_ENDED" \in listeners THEN onTransitionEnded(S1) ELSE S1)

\* MODEL_ADDED_EVENT: the model is among the visible models (which the viewer
\* lists by model id).
ModelAdded(m) ==
    /\ m \notin Range(visibleModels)
    /\ LET S1 == [Cur EXCEPT !.visibleModels = SortedSeq(Range(@) \cup {m})]
       IN Commit(IF "MODEL_ADDED" \in listeners THEN updateButton(S1) ELSE S1)

\* MODEL_REMOVED_EVENT: auto-reset when no visible model is left.
ModelRemoved(m) ==
    /\ m \in Range(visibleModels)
    /\ LET S1 == [Cur EXCEPT !.visibleModels = SelectSeq(@, LAMBDA x : x # m)]
           S2 == updateButton(S1)
           lastModelRemoved == Len(S1.visibleModels) = 0
       IN Commit(IF "MODEL_REMOVED" \notin listeners THEN S1
                 ELSE IF lastModelRemoved THEN reset(S2) ELSE S2)

\* The attributes the dropdown offers.
Attributes == {"Category"}

\* onDestinationChange up to its timer: the attribute is chosen and the
\* layout toggled.
DestinationChange(value) ==
    /\ "change" \in listeners /\ dropdown.attached
    /\ timers < MaxTimers
    /\ Starts(Cur, ~layoutActive) => CanStart(Cur)
    /\ LET S1 == [Cur EXCEPT !.chosenAttrib = value, !.timers = @ + 1]
       IN Commit(setLayoutActive(S1, ~S1.layoutActive))

\* onDestinationChange after its 500 ms: the layout is toggled again.
DestinationTimer ==
    /\ timers > 0
    /\ Starts(Cur, ~layoutActive) => CanStart(Cur)
    /\ LET S1 == [Cur EXCEPT !.timers = @ - 1]
       IN Commit(setLayoutActive(S1, ~S1.layoutActive))

\* ------------------------------------------------------------------ host callbacks
Awaiting(r, pc) == runs[r].pc = pc

\* getObjectTree calls back with the tree: the leaves are cut into chunks and
\* one getBulkProperties is issued per chunk.
LeafTreeOk(r) ==
    /\ Awaiting(r, "leafTree")
    /\ LET allDbIds == findLeafNodes(scene[runs[r].models[runs[r].i]])
           n == Len(Chunks(allDbIds, chunkSize))
           run1 == [runs[r] EXCEPT !.allDbIds = allDbIds, !.pendingChunks = 1..n,
                                   !.pc = "leafProps"]
           fin == FinishLeaves(run1, cachedDbIds, cachedFor)
       IN IF n = 0
          THEN Commit(Settle([Cur EXCEPT !.runs[r] = fin.run,
                                         !.cachedDbIds = fin.cache,
                                         !.cachedFor = fin.cfor], r))
          ELSE Commit([Cur EXCEPT !.runs[r] = run1])

\* getObjectTree fails: findLeafNodes, the resolution and the build reject.
LeafTreeFail(r) ==
    /\ Awaiting(r, "leafTree")
    /\ Commit(Settle([Cur EXCEPT !.runs[r] = Reject(@, "QueryError")], r))

\* The property records of chunk k arrive; with the last chunk the resolution
\* finishes.
LeafPropsOk(r, k) ==
    /\ Awaiting(r, "leafProps")
    /\ k \in runs[r].pendingChunks
    /\ LET run1 == [runs[r] EXCEPT !.pendingChunks = @ \ {k}]
           fin == FinishLeaves(run1, cachedDbIds, cachedFor)
       IN IF run1.pendingChunks = {}
          THEN Commit(Settle([Cur EXCEPT !.runs[r] = fin.run,
                                         !.cachedDbIds = fin.cache,
                                         !.cachedFor = fin.cfor], r))
          ELSE Commit([Cur EXCEPT !.runs[r] = run1])

\* Faulty variant: the resolution rejects but caches the leaves of the chunks
\* that did not fail.
LeafPropsFailCaching(r, k) ==
    /\ Awaiting(r, "leafProps")
    /\ k \in runs[r].pendingChunks
    /\ LET chunks == Chunks(runs[r].allDbIds, chunkSize)
           partial == Flat([c \in 1..Len(chunks) |-> IF c = k THEN <<>> ELSE chunks[c]])
       IN Commit(Settle([Cur EXCEPT !.runs[r] = Reject(@, "QueryError"),
                                    !.cachedDbIds = Cached(partial),
                                    !.cachedFor = runs[r].models[runs[r].i]], r))

\* The query of chunk k fails: Promise.all and with it the resolution and the
\* build reject.
LeafPropsFail(r, k) ==
    /\ Awaiting(r, "leafProps")
    /\ k \in runs[r].pendingChunks
    /\ Commit(Settle([Cur EXCEPT !.runs[r] = Reject(@, "QueryError")], r))

\* The attribute query of the j-th model of run r calls onDone.
AttrDone(r, j, omit) ==
    /\ runs[r].pc \in {"leafTree", "leafProps", "join"}
    /\ j \in runs[r].attrPending
    /\ LET run == runs[r]
           m == run.models[j]
           result == getBulkProperties2(scene[m], run.dbIds[j], run.attribName, omit)
           done == onDone(run.clustersByName, result, scene[m], m, run.searchAncestors)
           run1 == [run EXCEPT !.clustersByName = done.clustersByName,
                               !.attrPending = @ \ {j},
                               !.attrThrew = IF done.threw THEN @ \cup {j} ELSE @]
       IN Commit(Settle([Cur EXCEPT !.runs[r] = Complete(run1)], r))

\* The attribute query of the j-th model fails: getBulkProperties2 was given
\* no error callback, so the promise of that model is never settled.
AttrFail(r, j) ==
    /\ runs[r].pc \in {"leafTree", "leafProps", "join"}
    /\ j \in runs[r].attrPending
    /\ Commit([Cur EXCEPT !.runs[r].attrPending = @ \ {j},
                          !.runs[r].attrFailed = @ \cup {j}])

\* The object tree of the model the enumeration is at arrives.
EnumTreeOk ==
    /\ enum.pc = "leafTree"
    /\ propDb[enum.models[enum.i]] = "ready"
    /\ LET allDbIds == findLeafNodes(scene[enum.models[enum.i]])
           n == Len(Chunks(allDbIds, chunkSize))
           S1 == [Cur EXCEPT !.enum.allDbIds = allDbIds, !.enum.pendingChunks = 1..n,
                             !.enum.pc = "leafProps"]
       IN Commit(IF n = 0 THEN EnumFinishLeaves(S1) ELSE S1)

\* The property records of chunk k of the enumeration's leaf resolution arrive.
EnumLeafPropsOk(k) ==
    /\ enum.pc = "leafProps"
    /\ k \in enum.pendingChunks
    /\ LET S1 == [Cur EXCEPT !.enum.pendingChunks = @ \ {k}]
       IN Commit(IF S1.enum.pendingChunks = {} THEN EnumFinishLeaves(S1) ELSE S1)

\* The properties of the leaves arrive: their display names are collected.
EnumPropsOk ==
    /\ enum.pc = "props"
    /\ LET m == enum.models[enum.i]
           results == getBulkProperties(scene[m], enum.allDbIds)
           names == UNION { {results[k].properties[q].displayName :
                               q \in 1..Len(results[k].properties)} :
                            k \in 1..Len(results) }
       IN Commit(EnumCatch([Cur EXCEPT !.enum.names = @ \cup names]))

\* A query of the enumeration fails: the leaf resolution rejects, which the
\* loop catches; the property query was given no error callback, so its
\* promise is never settled and the enumeration never finishes.
EnumFail ==
    \/ /\ enum.pc \in {"leafTree", "leafProps"}
       /\ Commit(EnumCatch(Cur))
    \/ /\ enum.pc = "props"
       /\ Commit([Cur EXCEPT !.enum.pc = "hung"])

EnumCallback ==
    \/ EnumTreeOk
    \/ \E k \in 1..MaxNodes : EnumLeafPropsOk(k)
    \/ EnumPropsOk
    \/ EnumFail

HostCallback ==
    \E r \in RunIds :
        \/ LeafTreeOk(r)
        \/ LeafTreeFail(r)
        \/ \E k \in 1..MaxNodes : LeafPropsOk(r, k) \/ LeafPropsFail(r, k)
        \/ \E j \in 1..MaxModels : AttrFail(r, j) \/ \E omit \in BOOLEAN : AttrDone(r, j, omit)

\* ------------------------------------------------------------------ specifications
\* The extension after its constructor, in a viewer without visible models
\* whose models' property databases are as db tells.
Constructed(db) ==
    [ visibleModels |-> <<>>, cachedDbIds |-> NullCache, cachedFor |-> 0,
      runs |-> [r \in RunIds |-> IdleRun], layoutActive |-> FALSE,
      layoutTimeStamp |-> 0, chosenAttrib |-> "", sceneLayout |-> 0,
      sceneAnimState |-> 0, registered |-> 0, animTarget |-> 0, gizmoLayout |-> 0,
      transitioning |-> FALSE, pose |-> 0, animFrom |-> 0, timers |-> 0, propDb |-> db, listeners |-> {},
      clusterButton |-> "undefined", buttonState |-> "INACTIVE",
      buttonVisible |-> FALSE,
      dropdown |-> [display |-> "none", options |-> {}, attached |-> TRUE],
      enum |-> IdleEnum, loaded |-> "no", out |-> <<>> ]

AllReady == [m \in Models |-> "ready"]

InitExtension == InState(Constructed(AllReady))

\* The extension loaded in a viewer whose toolbar exists: models come and go,
\* the client and the dropdown drive the layout, the host answers the queries.
Init ==
    /\ scene = [m \in Models |-> ViewerScene(m)]
    /\ options \in [searchAncestors : {"undefined", "false"},
                     skipDefaultListeners : {FALSE}, skipDefaultButton : {FALSE}]
    /\ customSceneLayout \in BOOLEAN
    /\ InState([onToolbarCreated(load(Constructed(AllReady))) EXCEPT !.out = <<>>])

\* The session ends with unload(): the extension manager drops the extension.
Next ==
    /\ loaded = "yes"
    /\ \/ \E active \in BOOLEAN : SetLayoutActive(active)
       \/ ApplyLayout
       \/ Reset
       \/ Unload
       \/ \E m \in Models : ModelAdded(m)
       \/ \E m \in Models : ModelRemoved(m)
       \/ \E value \in Attributes : DestinationChange(value)
       \/ DestinationTimer
       \/ AnimEnded
       \/ HostCallback

Spec == Init /\ [][Next]_vars

\* The models of a session whose layout is the default one: the hierarchies
\* of ViewerScene, the last element's Category one of attrs and 'revit rooms'
\* that of the other leaves, a 3D model or a sheet.
LayoutAttrs == {"Doors", "revit rooms", "Revit Topography", "Revit Rooms", "Revit <Sketch>"}

LayoutScene(m, attr, threeD) ==
    LET sc == ViewerScene(m)
        leaf(n) == [PlainLeaf EXCEPT !.attr = IF n = MaxNodes THEN attr ELSE "revit rooms"]
    IN [sc EXCEPT !.properties =
                      [n \in Nodes |-> IF HasChildren(sc.parentOf, n) THEN @[n]
                                       ELSE PropertiesOf(sc.parentOf, n, leaf(n))],
                  !.is3d = threeD]

\* Per model: a 3D model with its instance tree, a sheet, a 3D model without
\* a property database.
ModelKinds == {"supported", "sheet", "noTree"}

\* The default layout over models of every kind: models are added, an
\* attribute is picked in the dropdown, the host answers the queries.
InitLayout ==
    /\ options = [searchAncestors |-> "undefined", skipDefaultListeners |-> FALSE,
                  skipDefaultButton |-> FALSE]
    /\ customSceneLayout = FALSE
    /\ \E attr \in [Models -> LayoutAttrs], kind \in [Models -> ModelKinds] :
          /\ scene = [m \in Models |-> LayoutScene(m, attr[m], kind[m] # "sheet")]
          /\ InState([onToolbarCreated(load(Constructed(
                         [m \in Models |-> IF kind[m] = "noTree" THEN "missing"
                                           ELSE "ready"])))
                      EXCEPT !.out = <<>>])

NextLayout ==
    \/ \E m \in Models : ModelAdded(m)
    \/ \E value \in Attributes : DestinationChange(value)
    \/ DestinationTimer
    \/ HostCallback

SpecLayout == InitLayout /\ [][NextLayout]_vars

\* The animation controller under the extension's calls, frame by frame: a
\* loaded extension with a custom layout is switched on and off and reset
\* while the render loop advances the transition.
InitAnim ==
    /\ scene = [m \in Models |-> ViewerScene(m)]
    /\ options = [searchAncestors |-> "undefined", skipDefaultListeners |-> FALSE,
                  skipDefaultButton |-> FALSE]
    /\ customSceneLayout = TRUE
    /\ InState([onToolbarCreated(load(Constructed(AllReady))) EXCEPT !.out = <<>>])

NextAnim ==
    \/ \E active \in BOOLEAN : SetLayoutActive(active)
    \/ ApplyLayout
    \/ Reset
    \/ \E m \in Models : ModelAdded(m) \/ ModelRemoved(m)
    \/ AnimTick
    \/ AnimEnded

SpecAnim == InitAnim /\ [][NextAnim]_vars

\* The extension from its construction on, with its toolbar button and
\* dropdown: the extension manager loads and unloads it, the user clicks and
\* chooses, property databases finish loading or turn out missing. A client
\* has set a custom layout, so a layout is there as soon as it is asked for.
InitUI ==
    /\ scene = [m \in Models |-> ViewerScene(m)]
    /\ options \in [searchAncestors : {"undefined"},
                     skipDefaultListeners : BOOLEAN, skipDefaultButton : BOOLEAN]
    /\ customSceneLayout = TRUE
    /\ \E db \in [Models -> {"loading", "missing"}] : InState(Constructed(db))

NextUI ==
    \/ Load
    \/ /\ loaded = "yes"
       /\ \/ ToolbarCreated
          \/ Click
          \/ \E value \in Attributes : DestinationChange(value)
          \/ DestinationTimer
          \/ \E active \in BOOLEAN : SetLayoutActive(active)
          \/ Reset
          \/ Unload
          \/ \E m \in Models : ModelAdded(m) \/ ModelRemoved(m) \/ DbLoaded(m)
          \/ AnimEnded
          \/ EnumCallback

SpecUI == InitUI /\ [][NextUI]_vars

\* buildClustersFromAttribute called on its own, once, with a list of loaded
\* models.
ModelLists ==
    {<<>>} \cup {<<m>> : m \in Models}
    \cup {<<m, n>> : <<m, n>> \in {p \in Models \X Models : p[1] # p[2]}}

BuildCall(models, attribName, searchAncestors) ==
    /\ \A r \in RunIds : runs[r].pc = "idle"
    /\ LET run0 == [IdleRun EXCEPT !.caller = "direct",
                                   !.models = models,
                                   !.attribName = DefaultParam(attribName, "Category"),
                                   !.searchAncestors =
                                       (DefaultParam(searchAncestors, "true") = "true"),
                                   !.i = 1]
       IN Commit([Cur EXCEPT !.runs[1] = Complete(Advance(run0, cachedDbIds, cachedFor))])

InitBuild ==
    /\ scene \in {f \in [Models -> RichScenes] : \A m \in Models \ {1} : f[m] \in PlainScenes}
    /\ options = [searchAncestors |-> "undefined", skipDefaultListeners |-> FALSE,
                  skipDefaultButton |-> FALSE]
    /\ customSceneLayout = FALSE
    /\ InitExtension

NextBuild ==
    \/ \E models \in ModelLists, attribName \in {"undefined", "", "Category"},
          searchAncestors \in {"undefined", "false"} :
            BuildCall(models, attribName, searchAncestors)
    \/ HostCallback

SpecBuild == InitBuild /\ [][NextBuild]_vars

\* ------------------------------------------------------------------ leaf resolution, called directly
\* findActualLeafNodes(model, useCache, useParallel) up to its first
\* suspension: a cached leaf set is resolved at once, otherwise the object
\* tree is asked for. The calls are numbered in the order they are made.
ResolveCall(r, m, useCache, useParallel) ==
    /\ runs[r].pc = "idle"
    /\ \A q \in RunIds : q < r => runs[q].pc # "idle"
    /\ LET run0 == [IdleRun EXCEPT !.caller = "findActualLeafNodes",
                                   !.models = <<m>>,
                                   !.i = 1,
                                   !.useCache = useCache,
                                   !.useParallel = useParallel]
       IN Commit([Cur EXCEPT !.runs[r] =
                     IF useCache /\ ~cachedDbIds.isNull
                     THEN [run0 EXCEPT !.pc = "fromCache", !.dbIds = <<cachedDbIds.ids>>]
                     ELSE [run0 EXCEPT !.pc = "leafTree"]])

\* The call has the property records of all its queries: promote,
\* de-duplicate, fill the cache when asked to and resolve, or reject on a
\* TypeError.
FinishResolve(S, r) ==
    LET run == S.runs[r]
        m == run.models[1]
        res == ResolveProps(PropsOf(scene[m], run.allDbIds, run.useParallel))
    IN IF res.threw
       THEN [S EXCEPT !.runs[r] = Reject(run, "TypeError")]
       ELSE [S EXCEPT !.runs[r] = [run EXCEPT !.pc = "leaves",
                                              !.dbIds = <<res.dbIds>>,
                                              !.pendingChunks = {}],
                      !.cachedDbIds = IF run.useCache THEN Cached(res.dbIds) ELSE @,
                      !.cachedFor = IF run.useCache THEN m ELSE @]

\* getObjectTree calls back with the tree: the queries of the branch taken
\* are issued, one per chunk or one for all leaves.
ResolveTreeOk(r) ==
    /\ Awaiting(r, "leafTree")
    /\ runs[r].caller = "findActualLeafNodes"
    /\ propDb[runs[r].models[1]] = "ready"
    /\ LET allDbIds == findLeafNodes(scene[runs[r].models[1]])
           n == Len(QueriesOf(allDbIds, runs[r].useParallel))
           S1 == [Cur EXCEPT !.runs[r] = [@ EXCEPT !.allDbIds = allDbIds,
                                                   !.pendingChunks = 1..n,
                                                   !.pc = "leafProps"]]
       IN Commit(IF n = 0 THEN FinishResolve(S1, r) ELSE S1)

\* getObjectTree fails for a model without property database: the call
\* rejects.
ResolveTreeFail(r) ==
    /\ Awaiting(r, "leafTree")
    /\ runs[r].caller = "findActualLeafNodes"
    /\ propDb[runs[r].models[1]] # "ready"
    /\ Commit([Cur EXCEPT !.runs[r] = Reject(@, "QueryError")])

\* The ids of the k-th query of call r.
QueryIds(r, k) == Range(QueriesOf(runs[r].allDbIds, runs[r].useParallel)[k])

\* The k-th query is answered, all its ids being readable; with the last
\* answer the call finishes.
ResolvePropsOk(r, k) ==
    /\ Awaiting(r, "leafProps")
    /\ runs[r].caller = "findActualLeafNodes"
    /\ k \in runs[r].pendingChunks
    /\ QueryIds(r, k) \cap scene[runs[r].models[1]].unreadable = {}
    /\ LET S1 == [Cur EXCEPT !.runs[r].pendingChunks = @ \ {k}]
       IN Commit(IF S1.runs[r].pendingChunks = {} THEN FinishResolve(S1, r) ELSE S1)

\* The k-th query fails on an id the property database cannot read:
\* Promise.all, or the single promise, and with it the call reject.
ResolvePropsFail(r, k) ==
    /\ Awaiting(r, "leafProps")
    /\ runs[r].caller = "findActualLeafNodes"
    /\ k \in runs[r].pendingChunks
    /\ QueryIds(r, k) \cap scene[runs[r].models[1]].unreadable # {}
    /\ Commit([Cur EXCEPT !.runs[r] = Reject(@, "QueryError")])

\* What the property database of the first model is like: all there, not
\* there at all, or with a last element it cannot read.
SourceKinds == {"complete", "missing", "unreadable"}

\* findActualLeafNodes called on the bare extension, in either mode, with and
\* without the cache, over every small scene.
InitLeaves ==
    /\ options = [searchAncestors |-> "undefined", skipDefaultListeners |-> FALSE,
                  skipDefaultButton |-> FALSE]
    /\ customSceneLayout = FALSE
    /\ \E sc \in RichScenes, kind \in SourceKinds :
          /\ scene = [m \in Models |->
                         IF m = 1
                         THEN [sc EXCEPT !.unreadable =
                                   IF kind = "unreadable" THEN {MaxNodes} ELSE {}]
                         ELSE ViewerScene(m)]
          /\ InState(Constructed([m \in Models |->
                         IF m = 1 /\ kind = "missing" THEN "missing" ELSE "ready"]))

NextLeaves ==
    \/ \E r \in RunIds, m \in Models, useCache \in BOOLEAN, useParallel \in BOOLEAN :
          ResolveCall(r, m, useCache, useParallel)
    \/ \E r \in RunIds : ResolveTreeOk(r)
    \/ \E r \in RunIds : ResolveTreeFail(r)
    \/ \E r \in RunIds, k \in 1..MaxNodes : ResolvePropsOk(r, k)
    \/ \E r \in RunIds, k \in 1..MaxNodes : ResolvePropsFail(r, k)

SpecLeaves == InitLeaves /\ [][NextLeaves]_vars

\* ------------------------------------------------------------------ properties
Pending == {"leafTree", "leafProps", "join"}

\* A layout run of applyLayout returns in this step.
Returns(r) == runs[r].pc \in Pending /\ runs'[r].pc \notin Pending

\* A layout run of applyLayout starts in this step.
Triggered(r) == runs[r].pc = "idle" /\ runs'[r].pc # "idle" /\ runs'[r].caller = "applyLayout"

\* C1: when applyLayout has been triggered again before an earlier run's layout
\* is there, the earlier run, whenever it returns, registers no state, starts
\* no animation, does not notify the gizmo controller, fires no
\* transition-started event and leaves sceneLayout and sceneAnimState alone;
\* a layout is applied only by the run that holds the current counter value.
C1_StaleRunIsDiscarded ==
    [][\A r \in RunIds :
          /\ (Returns(r) /\ r # layoutTimeStamp) =>
                /\ runs'[r].pc # "applied"
                /\ out' = <<>>
                /\ UNCHANGED animVars
          /\ (runs[r].pc # "applied" /\ runs'[r].pc = "applied") =>
                /\ r = layoutTimeStamp' /\ layoutActive'
                /\ sceneLayout' = r /\ animTarget' = r]_vars

\* An earlier run was found outdated although the layout was active, and the
\* latest run has been applied.
C1_Witness ==
    \E r \in RunIds :
        /\ runs[r].pc = "discarded" /\ runs[r].outdated
        /\ r < layoutTimeStamp
        /\ runs[layoutTimeStamp].pc = "applied"
        /\ sceneLayout = layoutTimeStamp

\* C2: after setLayoutActive(true) and setLayoutActive(false) the animation
\* controller is headed for the original state however the layout computation
\* interleaves: while the layout is inactive the last target is the original
\* state, the gizmos show no layout, and no step animates to the clustered
\* state.
C2_DeactivationRestoresOriginal ==
    /\ ~layoutActive => (animTarget = 0 /\ gizmoLayout = 0)
    /\ "animateTo(ByCategory)" \in Range(out) => layoutActive

\* A run that was started by an activation returned after the deactivation
\* and was dropped; the target is the original state.
C2_Witness ==
    /\ ~layoutActive
    /\ animTarget = 0
    /\ \E r \in RunIds : runs[r].pc = "discarded" /\ ~runs[r].outdated
    /\ \E r \in RunIds : runs[r].pc = "applied"

\* C3: in every state, setLayoutActive(v) with v equal to layoutActive changes
\* nothing: no counter increment, no run, no animateTo, no event, no gizmo
\* notification.
C3_SameValueIsNoOp ==
    \A v \in BOOLEAN : layoutActive = v => setLayoutActive(Cur, v) = Cur

\* The layout is active with its run still under way, and the counter could
\* still advance.
C3_Witness ==
    /\ layoutActive
    /\ layoutTimeStamp < MaxStamp
    /\ runs[layoutTimeStamp].pc \in Pending

\* C4: the run counter never decreases; it grows by exactly one in the very
\* step that triggers applyLayout, the new run holds the new value, and no
\* other step changes it.
C4_CounterMonotonic ==
    [][/\ layoutTimeStamp' \in {layoutTimeStamp, layoutTimeStamp + 1}
       /\ (layoutTimeStamp' = layoutTimeStamp + 1) <=> (\E r \in RunIds : Triggered(r))
       /\ \A r \in RunIds : Triggered(r) => r = layoutTimeStamp']_vars

\* The counter has advanced twice and a reset has just run.
C4_Witness ==
    /\ layoutTimeStamp = MaxStamp
    /\ out = <<"animController.reset", "gizmoController.reset">>
    /\ ~layoutActive

\* C7 (as claimed): a run with a failed attribute query has rejected.
C7_FailedQueryRejects ==
    \A r \in RunIds : runs[r].attrFailed # {} => runs[r].pc = "rejected"

\* -------------------------------------------------- properties of the pipeline
\* What the resolution of model m returns when it is computed from m itself.
OwnLeaves(m) == ResolveProps(getBulkProperties(scene[m], findLeafNodes(scene[m])))

\* C5 (as claimed): every leaf set a run gets for a model is that model's own.
C5_CachePerSource ==
    \A r \in RunIds : \A j \in 1..Len(runs[r].dbIds) :
        ~OwnLeaves(runs[r].models[j]).threw =>
            runs[r].dbIds[j] = OwnLeaves(runs[r].models[j]).dbIds

AllShapeIds(run) == Flat([k \in 1..Len(run.clusters) |-> run.clusters[k].shapeIds])

ResolvedShapeIds(run) ==
    {createShapeId(run.models[j], id) :
        <<j, id>> \in {p \in (1..Len(run.dbIds)) \X Nodes : p[2] \in Range(run.dbIds[p[1]])}}

HasAttr(sc, id, attribName) ==
    \E k \in 1..Len(sc.properties[id]) : sc.properties[id][k].displayName = attribName

RECURSIVE IsSelfOrAncestor(_, _, _)
IsSelfOrAncestor(sc, a, d) ==
    \/ d = a
    \/ sc.parentOf[d] # 0 /\ IsSelfOrAncestor(sc, a, sc.parentOf[d])

\* The resolved elements of a run the attribute query has a record for.
Classified(run) ==
    {p \in (1..Len(run.dbIds)) \X Nodes :
        /\ p[2] \in Range(run.dbIds[p[1]])
        /\ HasAttr(scene[run.models[p[1]]], p[2], run.attribName)}

C8_MissingAttributeUncategorized ==
    \A r \in RunIds :
        /\ runs[r].attrThrew = {}
        /\ runs[r].pc = "resolved" =>
              \A j \in 1..Len(runs[r].dbIds) : \A id \in Range(runs[r].dbIds[j]) :
                 ~HasAttr(scene[runs[r].models[j]], id, runs[r].attribName) =>
                    \E k \in 1..Len(runs[r].clusters) :
                       /\ runs[r].clusters[k].name = "uncategorized"
                       /\ createShapeId(runs[r].models[j], id)
                             \in Range(runs[r].clusters[k].shapeIds)

\* The leaves of a scene and the claim's reading of what each contributes.
LeavesOf(sc) == {n \in Nodes : \A c \in Nodes : sc.parentOf[c] # n}

IsMarked(sc, n) ==
    \/ sc.name[n] \in {"mesh", "Mesh", "MESH", "body", "Body", "BODY"}
    \/ \E k \in 1..Len(sc.properties[n]) :
          /\ IsStr(sc.properties[n][k].displayValue)
          /\ sc.properties[n][k].displayValue.s
                \in {"mesh", "Mesh", "MESH", "body", "Body", "BODY"}

ParentValues(sc, n) ==
    {sc.properties[n][k].displayValue.n :
        k \in {i \in 1..Len(sc.properties[n]) :
                 /\ sc.properties[n][i].displayName = "parent"
                 /\ IsNum(sc.properties[n][i].displayValue)}}

Contribution(sc, n) ==
    IF IsMarked(sc, n) /\ ParentValues(sc, n) # {}
    THEN ParentValues(sc, n)
    ELSE {n}

C10_MissingParentFallsBack ==
    \A r \in RunIds : ~(runs[r].pc = "rejected" /\ runs[r].error = "TypeError")

\* C11: when a property query of a resolution fails, the resolution rejects,
\* the run gets no leaf set for that model and the cache is as before; a
\* resolution that does return a leaf set returns the complete one.
C11_BatchErrorRejectsAll ==
    [][\A r \in RunIds :
          runs[r].pc = "leafProps" /\ runs'[r].pc # "leafProps" =>
             IF runs'[r].pc = "rejected"
             THEN /\ UNCHANGED cacheVars
                  /\ runs'[r].dbIds = runs[r].dbIds
                  /\ runs'[r].clusters = <<>>
             ELSE /\ Len(runs'[r].dbIds) > Len(runs[r].dbIds)
                  /\ runs'[r].dbIds[runs[r].i] = OwnLeaves(runs[r].models[runs[r].i]).dbIds
                  /\ cachedDbIds' = Cached(runs'[r].dbIds[runs[r].i])]_vars

\* A resolution with two queries under way has rejected on a query error and
\* the cache is still empty.
C11_Witness ==
    \E r \in RunIds :
        /\ runs[r].pc = "rejected" /\ runs[r].error = "QueryError"
        /\ Len(runs[r].allDbIds) >= 2
        /\ runs[r].dbIds = <<>>
        /\ cachedDbIds = NullCache

\* C12: a build whose clusters go on to the layout computation has, in the
\* step that hands them over, the leaf set of every model and the answer of
\* the last outstanding attribute query; no query has failed or thrown.
C12_JoinBeforeLayout ==
    [][\A r \in RunIds :
          runs[r].pc \in Pending /\ runs'[r].pc \in {"resolved", "applied", "discarded"} =>
             /\ runs[r].pc = "join"
             /\ Len(runs[r].dbIds) = Len(runs[r].models)
             /\ Cardinality(runs[r].attrPending) = 1
             /\ runs[r].attrFailed = {} /\ runs[r].attrThrew = {}]_vars

\* The layout of a build over two models has been applied.
C12_Witness ==
    \E r \in RunIds :
        /\ runs[r].pc = "applied"
        /\ Len(runs[r].models) = 2
        /\ Len(runs[r].clusters) >= 1
        /\ sceneLayout = r

\* C13 (as claimed): while the leaf resolution of one model of a run is under
\* way, the work on every later model of the run has been started as well,
\* so the resolution under way is never that of a model with successors.
C13_SourcesIssuedConcurrently ==
    \A r \in RunIds :
        runs[r].pc \in {"leafTree", "leafProps"} => runs[r].i >= Len(runs[r].models)

\* The value of the attribute of an element, and the shapes the element brings
\* into its cluster.
AttrValue(sc, id, attribName) ==
    LET at == Min({k \in 1..Len(sc.properties[id]) :
                     sc.properties[id][k].displayName = attribName})
    IN sc.properties[id][at].displayValue.s

ShapesOf(run, p) ==
    LET m == run.models[p[1]]
    IN IF run.searchAncestors
       THEN {createShapeId(m, d) :
               d \in {n \in Nodes : /\ IsSelfOrAncestor(scene[m], p[2], n)
                                    /\ hasVisibleFragments(scene[m], n)}}
       ELSE {createShapeId(m, p[2])}

\* C14: the clusters of a finished build have pairwise different names, and
\* the shapes of every classified element, whichever model it is from, are in
\* the one cluster named by the element's attribute value.
C14_ClustersKeyedByValue ==
    \A r \in RunIds : runs[r].pc = "resolved" =>
        LET run == runs[r]
        IN /\ \A k1, k2 \in 1..Len(run.clusters) :
                 run.clusters[k1].name = run.clusters[k2].name => k1 = k2
           /\ \A p \in Classified(run) :
                 \E k \in 1..Len(run.clusters) :
                    /\ run.clusters[k].name =
                          AttrValue(scene[run.models[p[1]]], p[2], run.attribName)
                    /\ ShapesOf(run, p) \subseteq Range(run.clusters[k].shapeIds)

\* One cluster of a finished build holds shapes of two models, next to a
\* second cluster.
C14_Witness ==
    \E r \in RunIds :
        /\ runs[r].pc = "resolved"
        /\ Len(runs[r].clusters) >= 2
        /\ \E k \in 1..Len(runs[r].clusters) :
              \E a, b \in Range(runs[r].clusters[k].shapeIds) : a.modelId # b.modelId

\* An element has a sub-part that is loaded and not hidden.
HasShownPart(sc, n) ==
    \E k \in 1..Len(sc.frags[n]) : ~sc.frags[n][k].notLoaded /\ sc.frags[n][k].visible

\* C15: at every moment of a build, a shape in a cluster comes from a matched
\* element of the cluster's value: with expansion it is that element or one
\* below it and has a sub-part that is loaded and not hidden; without
\* expansion it is the matched element itself, and a finished build holds
\* every matched element whether it is visible or not.
C15_ExpansionKeepsVisibleDescendants ==
    \A r \in RunIds :
        LET run == runs[r]
        IN /\ \A c \in 1..Len(run.clustersByName) :
                 \A s \in Range(run.clustersByName[c].shapeIds) :
                    \E p \in Classified(run) :
                       LET sc == scene[run.models[p[1]]]
                       IN /\ s.modelId = run.models[p[1]]
                          /\ AttrValue(sc, p[2], run.attribName) = run.clustersByName[c].name
                          /\ IF run.searchAncestors
                             THEN IsSelfOrAncestor(sc, p[2], s.dbId) /\ HasShownPart(sc, s.dbId)
                             ELSE s.dbId = p[2]
           /\ (run.pc = "resolved" /\ ~run.searchAncestors) =>
                 \A p \in Classified(run) :
                    createShapeId(run.models[p[1]], p[2]) \in Range(AllShapeIds(run))

\* A finished build with expansion holds an element below a matched element
\* and leaves out a matched element whose sub-parts are hidden or skipped.
C15_Witness ==
    \E r \in RunIds :
        /\ runs[r].pc = "resolved"
        /\ runs[r].searchAncestors
        /\ \E p \in Classified(runs[r]) :
              LET sc == scene[runs[r].models[p[1]]]
              IN /\ sc.frags[p[2]] # <<>>
                 /\ ~HasShownPart(sc, p[2])
                 /\ createShapeId(runs[r].models[p[1]], p[2]) \notin Range(AllShapeIds(runs[r]))
        /\ \E p \in Classified(runs[r]) : \E s \in Range(AllShapeIds(runs[r])) :
              /\ s.modelId = runs[r].models[p[1]]
              /\ s.dbId # p[2]
              /\ IsSelfOrAncestor(scene[runs[r].models[p[1]]], p[2], s.dbId)

\* A step in which reset() runs.
ResetRuns == "gizmoController.reset" \in Range(out')

\* C16 (as claimed): a reset during a transition ends the transition at the
\* original pose, the TRANSITION_ENDED fired for it carries null and not the
\* clustered state, and the layout is inactive afterwards.
C16_ResetEndsTransitionWithNull ==
    [][(transitioning /\ ResetRuns) =>
          /\ ~transitioning' /\ animTarget' = 0 /\ ~layoutActive'
          /\ "TRANSITION_ENDED(null)" \in Range(out')
          /\ "TRANSITION_ENDED(ByCategory)" \notin Range(out')]_vars

\* C17 (as claimed): as long as no attribute has been chosen in the dropdown,
\* the builds that applyLayout starts cluster by 'Category'.
C17_DefaultAttributeIsCategory ==
    \A r \in RunIds :
        (chosenAttrib = "" /\ runs[r].caller = "applyLayout"
            /\ runs[r].pc \in Pending \cup {"applied"}) =>
           runs[r].attribName = "Category"

\* A resolution is under way for run r on model m.
Resolving(r, m) ==
    /\ runs[r].pc \in {"leafTree", "leafProps"}
    /\ runs[r].models[runs[r].i] = m

\* C18 (as claimed): once the cache holds a result it keeps exactly that
\* result, and every leaf set handed to a run from then on is that result.
C18_CachedResultIsKept ==
    [][~cachedDbIds.isNull =>
          /\ UNCHANGED cacheVars
          /\ \A r \in RunIds : \A j \in 1..Len(runs'[r].dbIds) :
                j > Len(runs[r].dbIds) => runs'[r].dbIds[j] = cachedDbIds.ids]_vars

\* C19: no leaf set a run gets, and no cached leaf set, holds an id twice.
C19_ResolvedSetHasNoDuplicates ==
    /\ NoDup(cachedDbIds.ids)
    /\ \A r \in RunIds : \A j \in 1..Len(runs[r].dbIds) : NoDup(runs[r].dbIds[j])

\* Two sibling leaves named 'Mesh' have been promoted to their parent, which
\* is in the leaf set once.
C19_Witness ==
    \E r \in RunIds : \E j \in 1..Len(runs[r].dbIds) :
        LET sc == scene[runs[r].models[j]]
        IN /\ runs[r].leavesOf[j] = runs[r].models[j]
           /\ \E a, b \in LeavesOf(sc) :
                 /\ a # b
                 /\ sc.name[a] = "Mesh" /\ sc.name[b] = "Mesh"
                 /\ sc.parentOf[a] = sc.parentOf[b]
                 /\ sc.parentOf[a] \in Range(runs[r].dbIds[j])
                 /\ Len(runs[r].dbIds[j]) = 1

\* C20 (as claimed): no two resolutions fill the empty cache for the same
\* model at the same time.
C20_SingleCacheFill ==
    \A r1, r2 \in RunIds : \A m \in Models :
        (Resolving(r1, m) /\ Resolving(r2, m)) => r1 = r2

\* C21 (as claimed): the clusters of a finished build come in the order in
\* which their values were first met while the results were merged.
C21_ClustersInFirstSeenOrder ==
    \A r \in RunIds :
        runs[r].pc = "resolved" => runs[r].clusters = runs[r].clustersByName

\* The state the button is to show: DISABLED while the property database of a
\* visible model is loading or missing, otherwise by layoutActive.
ButtonExpected ==
    IF \E m \in Range(visibleModels) : propDb[m] # "ready" THEN "DISABLED"
    ELSE IF layoutActive THEN "ACTIVE" ELSE "INACTIVE"

\* A handler of the extension has changed layoutActive or has run on a change
\* of the visible models.
LayoutOrModelsHandled ==
    \/ layoutActive' # layoutActive
    \/ /\ Len(visibleModels') > Len(visibleModels)
       /\ "MODEL_ADDED" \in listeners
    \/ /\ Len(visibleModels') < Len(visibleModels)
       /\ "MODEL_REMOVED" \in listeners

\* C22 (as claimed): after every handler that changes layoutActive or the set
\* of visible models, the button is DISABLED when the property database of a
\* visible model is loading or missing, otherwise ACTIVE exactly when
\* layoutActive holds and INACTIVE when it does not.
C22_ButtonShowsState ==
    [][(LayoutOrModelsHandled /\ clusterButton' = "button")
          => buttonState' = ButtonExpected']_vars

\* C22 (amended): the same whenever the handler leaves a model visible; with
\* no visible model the button is hidden and keeps the state it had.
C22_ShownButtonShowsState ==
    [][(LayoutOrModelsHandled /\ clusterButton' = "button" /\ visibleModels' # <<>>)
          => (buttonVisible' /\ buttonState' = ButtonExpected')]_vars

\* The layout was activated while the property database of a visible model is
\* missing: the button is shown and disabled.
C22_Witness ==
    /\ clusterButton = "button" /\ buttonVisible
    /\ layoutActive
    /\ \E m \in Range(visibleModels) : propDb[m] = "missing"
    /\ buttonState = "DISABLED"

\* C25 (as claimed): a click that shows the dropdown leaves the layout active,
\* a click that hides it leaves the layout inactive, whatever happened before.
C25_ClickKeepsDropdownInStep ==
    [][dropdown.display' # dropdown.display
          => (layoutActive' <=> dropdown.display' = "block")]_vars

\* C26 (as claimed): a change of the shown dropdown deactivates the layout and
\* animates to the original state; when its delay has elapsed the layout is
\* activated, and with no change handler pending the layout is active.
C26_ChangeRestartsLayout ==
    [][/\ (timers' > timers /\ dropdown.display = "block")
            => (~layoutActive' /\ "animateTo(null)" \in Range(out'))
       /\ (timers' < timers /\ dropdown.display = "block")
            => layoutActive']_vars

\* unload() ran in this step: it returned true or threw.
UnloadCalled ==
    /\ loaded = "yes"
    /\ loaded' = "unloaded" \/ "TypeError" \in Range(out')

\* C28 (as claimed): every unload() resets the animation controller, leaves
\* the layout inactive and returns true.
C28_UnloadAlwaysReverts ==
    [][UnloadCalled
          => /\ "animController.reset" \in Range(out')
             /\ ~layoutActive'
             /\ "return true" \in Range(out')]_vars

\* C29 (as claimed): once load() and then unload() have returned, no listener
\* of the extension is registered.
C29_UnloadRemovesListeners ==
    loaded = "unloaded" => listeners = {}

\* The last visible model is removed in this step and onModelRemoved runs.
LastModelRemoved ==
    /\ visibleModels # <<>> /\ visibleModels' = <<>>
    /\ "MODEL_REMOVED" \in listeners

\* Run r is under way and its result is no longer wanted.
Orphaned(r) ==
    /\ runs[r].caller = "applyLayout" /\ runs[r].pc \in Pending
    /\ ~layoutActive \/ r # layoutTimeStamp

\* C27: when the last visible model is removed the layout is inactive and
\* every layout run under way is orphaned; an orphaned run stays orphaned
\* whatever happens next (models added, the layout activated again), and when
\* it returns it is not applied, registers no state, starts no animation and
\* fires nothing.
C27_AutoResetLeaksNothing ==
    [][/\ LastModelRemoved =>
             /\ ~layoutActive'
             /\ \A r \in RunIds :
                   (runs'[r].caller = "applyLayout" /\ runs'[r].pc \in Pending)
                      => Orphaned(r)'
       /\ \A r \in RunIds :
             Orphaned(r) =>
                /\ runs'[r].pc \in Pending => Orphaned(r)'
                /\ runs'[r].pc \notin Pending =>
                      /\ runs'[r].pc # "applied"
                      /\ out' = <<>>
                      /\ UNCHANGED animVars]_vars

\* The last model has just been removed while the run that holds the current
\* counter value, started on that model, is still under way.
C27_Witness ==
    /\ visibleModels = <<>>
    /\ ~layoutActive
    /\ "gizmoController.reset" \in Range(out)
    /\ \E r \in RunIds :
          /\ runs[r].pc \in Pending /\ runs[r].models # <<>>
          /\ r = layoutTimeStamp

\* The calls of animateTo among the calls and events of the last step.
AnimateCalls == {k \in 1..Len(out) : out[k] \in {"animateTo(ByCategory)", "animateTo(null)"}}

\* C30: every animateTo comes right after a transition-started event, one
\* event per call; and before animateTo('ByCategory') and its event the state
\* has been registered under 'ByCategory'.
C30_EventBeforeAnimate ==
    /\ \A k \in AnimateCalls : k > 1 /\ out[k - 1] = "TRANSITION_STARTED"
    /\ Cardinality({k \in 1..Len(out) : out[k] = "TRANSITION_STARTED"})
          = Cardinality(AnimateCalls)
    /\ \A k \in AnimateCalls :
          out[k] = "animateTo(ByCategory)" =>
             \E j \in 1..(k - 2) : out[j] = "registerState(ByCategory)"

\* A layout that was awaited has just been applied: the state is registered,
\* the event fired and the animation started.
C30_Witness ==
    /\ ~customSceneLayout
    /\ "animateTo(ByCategory)" \in Range(out)
    /\ \E r \in RunIds : runs[r].pc = "applied" /\ animTarget = r

\* The target of the last animateTo among the calls of this step.
AnimateCalled == \E k \in 1..Len(out') : out'[k] \in {"animateTo(ByCategory)", "animateTo(null)"}

DefaultApplied(r) ==
    runs[r].pc = "applied" /\ runs[r].caller = "applyLayout" /\ ~customSceneLayout

\* The places of the built clusters of run r that do not carry one of the
\* three names.
KeptPlaces(r) ==
    {j \in 1..Len(runs[r].clusters) :
        runs[r].clusters[j].name \notin {"Revit Topography", "Revit Rooms", "Revit <Sketch>"}}

\* C31: of the clusters built for a default layout, none named 'Revit
\* Topography', 'Revit Rooms' or 'Revit <Sketch>' is handed to the layout
\* computation, every other one is, in the order built and with its name and
\* shape ids as built; and no shape of a cluster belongs to a model that is
\* not 3D or has no instance tree.
C31_LayoutExcludesThreeNames ==
    \A r \in RunIds :
        DefaultApplied(r) =>
            LET built == runs[r].clusters
                passed == runs[r].laidOut
                kept == SortedSeq(KeptPlaces(r))
            IN /\ Len(passed) = Len(kept)
               /\ \A k \in 1..Len(passed) : passed[k] = built[kept[k]]
               /\ \A j \in 1..Len(built) : \A k \in 1..Len(built[j].shapeIds) :
                     /\ is3d(built[j].shapeIds[k].modelId)
                     /\ propDb[built[j].shapeIds[k].modelId] = "ready"

\* A default layout was applied while a sheet or a model without instance
\* tree was visible; of its clusters one was dropped and one, whose name
\* differs from a dropped name by case only, was kept.
C31_Witness ==
    \E r \in RunIds :
        /\ DefaultApplied(r)
        /\ \E m \in Range(visibleModels) : ~is3d(m) \/ propDb[m] # "ready"
        /\ Len(runs[r].laidOut) < Len(runs[r].clusters)
        /\ \E k \in 1..Len(runs[r].laidOut) : runs[r].laidOut[k].name = "revit rooms"

\* Call r of findActualLeafNodes went through its queries and has resolved
\* or rejected.
Computed(r) ==
    runs[r].caller = "findActualLeafNodes" /\ runs[r].pc \in {"leaves", "rejected"}

\* C32: a chunked-parallel and a single-query call of findActualLeafNodes on
\* the same model over the same property data end alike: both resolve, with
\* the same leaves in the same order, or both reject, with the same kind of
\* error; and the chunks of a parallel call have at most chunkSize ids each
\* and make up the leaf list, each leaf once and in order.
C32_ModesAgree ==
    \A p, q \in RunIds :
        /\ (/\ Computed(p) /\ Computed(q)
            /\ runs[p].models = runs[q].models
            /\ runs[p].useParallel /\ ~runs[q].useParallel) =>
               /\ runs[p].pc = runs[q].pc
               /\ runs[p].dbIds = runs[q].dbIds
               /\ runs[p].error = runs[q].error
        /\ (/\ runs[p].caller = "findActualLeafNodes"
            /\ runs[p].useParallel
            /\ runs[p].pc = "leafProps") =>
               LET queries == QueriesOf(runs[p].allDbIds, TRUE)
               IN /\ Flat(queries) = runs[p].allDbIds
                  /\ runs[p].pendingChunks \subseteq 1..Len(queries)
                  /\ \A k \in 1..Len(queries) : Len(queries[k]) \in 1..chunkSize

\* A parallel call of several chunks and a single-query call on the same
\* model have both resolved, a leaf having been replaced by its parent.
C32_Witness ==
    \E p, q \in RunIds :
        /\ Computed(p) /\ Computed(q)
        /\ runs[p].models = runs[q].models
        /\ runs[p].useParallel /\ ~runs[q].useParallel
        /\ Len(QueriesOf(runs[p].allDbIds, TRUE)) > 1
        /\ runs[p].pc = "leaves" /\ runs[q].pc = "leaves"
        /\ runs[p].dbIds[1] # runs[p].allDbIds
        /\ Len(runs[p].dbIds[1]) > 1

====
